---- MODULE Spec2Model ----
(***************************************************************************)
(* aws-gate, aws_gate/ssh.py: the SshSession command builder and the       *)
(* ssh() orchestrator (SshKey / SshKeyUploader / SshSession nested as      *)
(* context managers around the local SSH process).                         *)
(*                                                                         *)
(* A Python str is a sequence of one-character strings; Python's None is   *)
(* the value None below, which is no character sequence.                   *)
(***************************************************************************)
EXTENDS Naturals, Sequences, FiniteSets, TLC

VARIABLES
    pc,       \* per invocation of ssh(): the statement it stands at
    args,     \* per invocation: the arguments ssh() was called with
    loc,      \* per invocation: the locals of ssh()
    files,    \* the key directory: path -> the invocation whose key is stored there
    agent,    \* the invocations whose key is loaded in the SSH agent
    log,      \* per invocation: the events so far, in order
    result,   \* per invocation: how ssh() ended
    debug,    \* the process-wide DEBUG flag
    uargs,    \* command builder alone: the arguments SshSession(...) was given
    obj,      \* command builder alone: the SshSession instance
    argv,     \* command builder alone: the list _build_ssh_command returned
    upc       \* command builder alone: the step reached

vars == <<pc, args, loc, files, agent, log, result, debug, uargs, obj, argv, upc>>
lifecycle == <<pc, args, loc, files, agent, log, result>>
builder == <<uargs, obj, argv, upc>>

\* ---------------------------------------------------------------- values

None == <<"<None>">>

\* str.format("{}") / str() of a str or of None
Format(v) == IF v = None THEN <<"N", "o", "n", "e">> ELSE v

Digits == <<"0", "1", "2", "3", "4", "5", "6", "7", "8", "9">>

RECURSIVE IntToStr(_)
\* str(port) of a non-negative int
IntToStr(n) ==
    IF n < 10 THEN <<Digits[n + 1]>>
    ELSE IntToStr(n \div 10) \o <<Digits[(n % 10) + 1]>>

RECURSIVE Join(_, _)
\* sep.join(parts)
Join(parts, sep) ==
    IF parts = <<>> THEN <<>>
    ELSE IF Len(parts) = 1 THEN parts[1]
    ELSE parts[1] \o sep \o Join(Tail(parts), sep)

\* ---------------------------------------------------------------- literals

L_ssh == <<"s", "s", "h">>
L_l == <<"-", "l">>
L_p == <<"-", "p">>
L_F == <<"-", "F">>
L_devnull == <<"/", "d", "e", "v", "/", "n", "u", "l", "l">>
L_vv == <<"-", "v", "v">>
L_q == <<"-", "q">>
L_o == <<"-", "o">>
L_dashdash == <<"-", "-">>
L_StartSession == <<"S", "t", "a", "r", "t", "S", "e", "s", "s", "i", "o", "n">>
L_no == <<"n", "o">>
L_yes == <<"y", "e", "s">>
L_IdentitiesOnly == <<"I", "d", "e", "n", "t", "i", "t", "i", "e", "s", "O", "n", "l", "y", "=">>
L_IdentityFile == <<"I", "d", "e", "n", "t", "i", "t", "y", "F", "i", "l", "e", "=">>
L_UserKnownHostsFile == <<"U", "s", "e", "r", "K", "n", "o", "w", "n", "H", "o", "s", "t", "s", "F", "i", "l", "e", "=", "/", "d", "e", "v", "/", "n", "u", "l", "l">>
L_StrictHostKeyChecking == <<"S", "t", "r", "i", "c", "t", "H", "o", "s", "t", "K", "e", "y", "C", "h", "e", "c", "k", "i", "n", "g", "=", "n", "o">>
L_ProxyCommand == <<"P", "r", "o", "x", "y", "C", "o", "m", "m", "a", "n", "d", "=">>
L_Target == <<"T", "a", "r", "g", "e", "t">>
L_DocumentName == <<"D", "o", "c", "u", "m", "e", "n", "t", "N", "a", "m", "e">>
L_StartSSHSession == <<"A", "W", "S", "-", "S", "t", "a", "r", "t", "S", "S", "H", "S", "e", "s", "s", "i", "o", "n">>
L_Parameters == <<"P", "a", "r", "a", "m", "e", "t", "e", "r", "s">>
L_portNumber == <<"p", "o", "r", "t", "N", "u", "m", "b", "e", "r">>

\* ---------------------------------------------------------------- json.dumps

\* JSON values: a str, a list, a dict (its items in insertion order), and a
\* value json cannot serialise (dumps raises TypeError on it).
JStr(s) == [t |-> "str", v |-> s]
JArr(items) == [t |-> "arr", v |-> items]
JObj(pairs) == [t |-> "obj", v |-> pairs]
JOpaque == [t |-> "opaque", v |-> <<>>]

\* The characters json writes as they are: the printable ASCII characters
\* other than the double quote and the backslash (and the backquote, which
\* a string of this module cannot hold).
PrintableAscii ==
    {" ", "!", "#", "$", "%", "&", "'", "(", ")", "*", "+", ",", "-", ".", "/", ":", ";", "<",
     "=", ">", "?", "@", "[", "]", "^", "_", "{", "|", "}", "~"}
    \cup {"a", "b", "c", "d", "e", "f", "g", "h", "i", "j", "k", "l", "m", "n", "o", "p", "q",
          "r", "s", "t", "u", "v", "w", "x", "y", "z", "A", "B", "C", "D", "E", "F", "G", "H",
          "I", "J", "K", "L", "M", "N", "O", "P", "Q", "R", "S", "T", "U", "V", "W", "X", "Y",
          "Z", "0", "1", "2", "3", "4", "5", "6", "7", "8", "9"}

\* ord(c) of the other characters of the model's character set, as runs of
\* consecutive characters with the code point of the first. U+0000, the
\* characters that end a line (U+000B, U+001C to U+001E, U+0085) and the
\* characters above U+00FF other than the euro sign are not in the set.
CodeRuns ==
    << <<1, <<"", "", "", "", "", "", "", "">>>>,
       <<14, <<"", "", "", "", "", "", "", "", "", "", "", "", "", "">>>>,
       <<31, <<"">>>>,
       <<127, <<"", "", "", "", "", "">>>>,
       <<134, <<"", "", "", "", "", "", "", "", "", "", "", "", "", "", "", "", "", "", "", "", "", "", "", "", "", "", " ", "¡", "¢", "£", "¤", "¥", "¦", "§", "¨", "©", "ª", "«", "¬", "­", "®", "¯", "°", "±", "²", "³", "´", "µ", "¶", "·", "¸", "¹", "º", "»", "¼", "½", "¾", "¿", "À", "Á", "Â", "Ã", "Ä", "Å", "Æ", "Ç", "È", "É", "Ê", "Ë", "Ì", "Í", "Î", "Ï", "Ð", "Ñ", "Ò", "Ó", "Ô", "Õ", "Ö", "×", "Ø", "Ù", "Ú", "Û", "Ü", "Ý", "Þ", "ß", "à", "á", "â", "ã", "ä", "å", "æ", "ç", "è", "é", "ê", "ë", "ì", "í", "î", "ï", "ð", "ñ", "ò", "ó", "ô", "õ", "ö", "÷", "ø", "ù", "ú", "û", "ü", "ý", "þ", "ÿ">>>>,
       <<8364, <<"€">>>> >>

ord(c) ==
    LET r == CHOOSE i \in DOMAIN CodeRuns : \E k \in DOMAIN CodeRuns[i][2] : CodeRuns[i][2][k] = c
        k == CHOOSE k \in DOMAIN CodeRuns[r][2] : CodeRuns[r][2][k] = c
    IN  CodeRuns[r][1] + k - 1

HexDigits == <<"0", "1", "2", "3", "4", "5", "6", "7", "8", "9", "a", "b", "c", "d", "e", "f">>

\* "{0:04x}".format(n)
Hex4(n) ==
    <<HexDigits[((n \div 4096) % 16) + 1], HexDigits[((n \div 256) % 16) + 1],
      HexDigits[((n \div 16) % 16) + 1], HexDigits[(n % 16) + 1]>>

\* json.encoder.py_encode_basestring_ascii on one character: the short
\* escapes of ESCAPE_DCT, \uXXXX for every other character outside " " to
\* "~", and the character itself otherwise
JsonEscapeChar(c) ==
    CASE c \in PrintableAscii -> <<c>>
      [] c = "\"" -> <<"\\", "\"">>
      [] c = "\\" -> <<"\\", "\\">>
      [] c = "\n" -> <<"\\", "n">>
      [] c = "\r" -> <<"\\", "r">>
      [] c = "\t" -> <<"\\", "t">>
      [] c = "\f" -> <<"\\", "f">>
      [] c = "" -> <<"\\", "b">>
      [] OTHER -> <<"\\", "u">> \o Hex4(ord(c))

RECURSIVE JsonEscape(_)
\* json.encoder.py_encode_basestring_ascii, without the enclosing quotes
\* (the string is halved rather than walked, to keep the evaluation shallow)
JsonEscape(s) ==
    IF s = <<>> THEN <<>>
    ELSE IF Len(s) = 1 THEN JsonEscapeChar(s[1])
    ELSE LET m == Len(s) \div 2
         IN  JsonEscape(SubSeq(s, 1, m)) \o JsonEscape(SubSeq(s, m + 1, Len(s)))

RECURSIVE Serializable(_)
Serializable(j) ==
    CASE j.t = "str" -> TRUE
      [] j.t = "arr" -> \A i \in DOMAIN j.v : Serializable(j.v[i])
      [] j.t = "obj" -> \A i \in DOMAIN j.v : Serializable(j.v[i][2])
      [] OTHER -> FALSE

RECURSIVE dumps(_)
\* json.dumps(obj) with the default separators (", " and ": ")
dumps(j) ==
    CASE j.t = "str" -> <<"\"">> \o JsonEscape(j.v) \o <<"\"">>
      [] j.t = "arr" ->
           <<"[">> \o Join([i \in DOMAIN j.v |-> dumps(j.v[i])], <<",", " ">>) \o <<"]">>
      [] j.t = "obj" ->
           <<"{">>
           \o Join([i \in DOMAIN j.v |->
                      dumps(JStr(j.v[i][1])) \o <<":", " ">> \o dumps(j.v[i][2])],
                   <<",", " ">>)
           \o <<"}">>

\* ---------------------------------------------------------------- shlex.quote

WordChars == {"a", "b", "c", "d", "e", "f", "g", "h", "i", "j", "k", "l", "m", "n", "o", "p", "q", "r", "s", "t", "u", "v", "w", "x", "y", "z", "A", "B", "C", "D", "E", "F", "G", "H", "I", "J", "K", "L", "M", "N", "O", "P", "Q", "R", "S", "T", "U", "V", "W", "X", "Y", "Z", "0", "1", "2", "3", "4", "5", "6", "7", "8", "9", "_"}

\* the complement of shlex._find_unsafe's class [^\w@%+=:,./-] (re.ASCII)
SafeChars == WordChars \cup {"@", "%", "+", "=", ":", ",", ".", "/", "-"}

RECURSIVE ReplaceQuote(_)
\* s.replace("'", "'\"'\"'")
ReplaceQuote(s) ==
    IF s = <<>> THEN <<>>
    ELSE IF Len(s) = 1 THEN (IF s[1] = "'" THEN <<"'", "\"", "'", "\"", "'">> ELSE s)
    ELSE LET m == Len(s) \div 2
         IN  ReplaceQuote(SubSeq(s, 1, m)) \o ReplaceQuote(SubSeq(s, m + 1, Len(s)))

\* a plausible slip: wrap in single quotes without escaping embedded ones
quote_noescape(s) ==
    IF s = None \/ s = <<>> THEN <<"'", "'">>
    ELSE IF \A i \in DOMAIN s : s[i] \in SafeChars THEN s
    ELSE <<"'">> \o s \o <<"'">>

\* shlex.quote(s)
quote(s) ==
    IF s = None \/ s = <<>> THEN <<"'", "'">>
    ELSE IF \A i \in DOMAIN s : s[i] \in SafeChars THEN s
    ELSE <<"'">> \o ReplaceQuote(s) \o <<"'">>

\* ---------------------------------------------------------------- shell re-parse

\* Characters a POSIX shell interprets when they stand unquoted in a word
\* (the backquote, which a TLA+ string cannot hold, is left out; "$" stands
\* for command substitution as well).
ShellMeta == {"$", ";", "&", "|", "<", ">", "(", ")", "*", "?", "[", "#", "~", "!", "{", "}"}
ShellBlank == {" ", "\t", "\n"}

\* the first position from i on whose character is in set, Len(s) + 1 if none
NextIn(s, i, set) ==
    IF \E k \in i..Len(s) : s[k] \in set
      THEN CHOOSE k \in i..Len(s) : s[k] \in set /\ \A m \in i..(k - 1) : s[m] \notin set
      ELSE Len(s) + 1

MetaMark(c) == IF c \in ShellMeta THEN "<meta>" ELSE c

RECURSIVE ShellSplitFrom(_, _, _, _, _, _)
\* POSIX shell word splitting of s from position i.  mode is "plain", "single"
\* or "double"; cur is the word being collected and inword tells whether one
\* is open (an empty quoted word is a word).  Each step takes the run of
\* characters up to the next one that changes the mode or ends a word.  A
\* character the shell would interpret rather than keep is recorded as
\* "<meta>", an unterminated quote as a final "<open>" word, so that such a
\* string never splits into a list of plain words.
ShellSplitFrom(s, i, mode, cur, inword, words) ==
    IF i > Len(s) THEN
        IF mode # "plain" THEN Append(words, <<"<open>">>)
        ELSE IF inword THEN Append(words, cur) ELSE words
    ELSE
      CASE mode = "single" ->
             LET j == NextIn(s, i, {"'"})
             IN  ShellSplitFrom(s, j + 1, IF j > Len(s) THEN "single" ELSE "plain",
                                cur \o SubSeq(s, i, j - 1), TRUE, words)
        [] mode = "double" ->
             LET j == NextIn(s, i, {"\"", "\\", "$"})
                 run == cur \o SubSeq(s, i, j - 1)
             IN  IF j > Len(s) THEN ShellSplitFrom(s, j, "double", run, TRUE, words)
                 ELSE IF s[j] = "\"" THEN ShellSplitFrom(s, j + 1, "plain", run, TRUE, words)
                 ELSE IF s[j] = "\\" /\ j < Len(s) /\ s[j + 1] \in {"\"", "\\", "$"}
                   THEN ShellSplitFrom(s, j + 2, "double", Append(run, s[j + 1]), TRUE, words)
                 ELSE ShellSplitFrom(s, j + 1, "double", Append(run, MetaMark(s[j])), TRUE, words)
        [] OTHER ->
             LET j == NextIn(s, i, ShellBlank \cup ShellMeta \cup {"'", "\"", "\\"})
                 run == cur \o SubSeq(s, i, j - 1)
                 open == inword \/ j > i
             IN  IF j > Len(s) THEN ShellSplitFrom(s, j, "plain", run, open, words)
                 ELSE IF s[j] \in ShellBlank THEN
                     ShellSplitFrom(s, j + 1, "plain", <<>>, FALSE,
                                    IF open THEN Append(words, run) ELSE words)
                 ELSE IF s[j] = "'" THEN ShellSplitFrom(s, j + 1, "single", run, TRUE, words)
                 ELSE IF s[j] = "\"" THEN ShellSplitFrom(s, j + 1, "double", run, TRUE, words)
                 ELSE IF s[j] = "\\" THEN
                     IF j < Len(s)
                       THEN ShellSplitFrom(s, j + 2, "plain", Append(run, s[j + 1]), TRUE, words)
                       ELSE Append(words, <<"<open>">>)
                 ELSE ShellSplitFrom(s, j + 1, "plain", Append(run, "<meta>"), TRUE, words)

ShellSplit(s) == ShellSplitFrom(s, 1, "plain", <<>>, FALSE, <<>>)

\* ---------------------------------------------------------------- constants

\* aws_gate.constants: values of the imported module constants
PLUGIN_INSTALL_PATH == <<"/", "h", "o", "m", "e", "/", "u", "/", ".", "a", "w", "s", "-", "g", "a", "t", "e", "/", "b", "i", "n", "/", "s", "e", "s", "s", "i", "o", "n", "-", "m", "a", "n", "a", "g", "e", "r", "-", "p", "l", "u", "g", "i", "n">>
DEFAULT_GATE_DIR == <<"/", "h", "o", "m", "e", "/", "u", "/", ".", "a", "w", "s", "-", "g", "a", "t", "e">>
DEFAULT_OS_USER == <<"e", "c", "2", "-", "u", "s", "e", "r">>
DEFAULT_SSH_PORT == 22

\* ---------------------------------------------------------------- SshSession

\* the session-start response before the broker call has returned one
NoResponse == [t |-> "unset", v |-> <<>>]

\* command=None, where a list of tokens is expected
NoCommand == <<None>>

\* a plausible slip: the port number is not wrapped in a list
SshSession__init___barelist(instance_id, key_path, ssm, region_name, profile_name, port, user, command, agent_mode) ==
    [ _instance_id |-> instance_id,
      _region_name |-> region_name,
      _profile_name |-> IF profile_name # None THEN profile_name ELSE <<>>,
      _ssm |-> ssm,
      _port |-> port,
      _user |-> user,
      _command |-> command,
      _key_path |-> key_path,
      _agent_mode |-> agent_mode,
      _ssh_cmd |-> <<>>,
      _session_parameters |->
          JObj(<< <<L_Target, JStr(instance_id)>>,
                  <<L_DocumentName, JStr(L_StartSSHSession)>>,
                  <<L_Parameters, JObj(<< <<L_portNumber, JStr(IntToStr(port))>> >>)>> >>),
      _response |-> NoResponse ]

\* SshSession.__init__: the instance's attributes (_response is set later, by
\* the session-start call made on entering the session)
SshSession__init__(instance_id, key_path, ssm, region_name, profile_name, port, user, command, agent_mode) ==
    [ _instance_id |-> instance_id,
      _region_name |-> region_name,
      _profile_name |-> IF profile_name # None THEN profile_name ELSE <<>>,
      _ssm |-> ssm,
      _port |-> port,
      _user |-> user,
      _command |-> command,
      _key_path |-> key_path,
      _agent_mode |-> agent_mode,
      _ssh_cmd |-> <<>>,
      _session_parameters |->
          JObj(<< <<L_Target, JStr(instance_id)>>,
                  <<L_DocumentName, JStr(L_StartSSHSession)>>,
                  <<L_Parameters,
                    JObj(<< <<L_portNumber, JArr(<<JStr(IntToStr(port))>>)>> >>)>> >>),
      _response |-> NoResponse ]

\* the verbosity flag appended after the base invocation
VerbosityFlag(DEBUG) == IF DEBUG THEN L_vv ELSE L_q

\* a plausible slip: the profile is left out of the list when it is empty
proxy_command_args_dropempty(self) ==
    << PLUGIN_INSTALL_PATH, dumps(self._response), self._region_name, L_StartSession >>
    \o (IF self._profile_name = <<>> THEN <<>> ELSE <<self._profile_name>>)
    \o << dumps(self._session_parameters), self._ssm.endpoint_url >>

\* the list proxy_command_args
proxy_command_args(self) ==
    << PLUGIN_INSTALL_PATH,
       dumps(self._response),
       self._region_name,
       L_StartSession,
       self._profile_name,
       dumps(self._session_parameters),
       self._ssm.endpoint_url >>

\* " ".join(shlex.quote(i) for i in proxy_command_args)
proxy_command(self) ==
    LET a == proxy_command_args(self)
    IN  Join([i \in DOMAIN a |-> quote(a[i])], <<" ">>)

\* a plausible slip: the two branches of the conditional swapped
IdentitiesOnlyValue_swapped(agent_mode) == IF agent_mode THEN L_yes ELSE L_no

\* "no" if self._agent_mode else "yes"
IdentitiesOnlyValue(agent_mode) == IF agent_mode THEN L_no ELSE L_yes

\* a plausible slip: the identity options listed in the other order
ssh_options_reordered(self) ==
    << L_IdentityFile \o Format(self._key_path),
       L_IdentitiesOnly \o IdentitiesOnlyValue(self._agent_mode),
       L_UserKnownHostsFile,
       L_StrictHostKeyChecking,
       L_ProxyCommand \o proxy_command(self) >>

\* the list ssh_options
ssh_options(self) ==
    << L_IdentitiesOnly \o IdentitiesOnlyValue(self._agent_mode),
       L_IdentityFile \o Format(self._key_path),
       L_UserKnownHostsFile,
       L_StrictHostKeyChecking,
       L_ProxyCommand \o proxy_command(self) >>

RECURSIVE DashO(_)
\* for ssh_option in ssh_options: cmd.append("-o"); cmd.append(ssh_option)
DashO(opts) ==
    IF opts = <<>> THEN <<>> ELSE <<L_o, Head(opts)>> \o DashO(Tail(opts))

\* a plausible slip: "if self._command is not None"
Truthy_notnone(command) == command # NoCommand

\* "if self._command": None and the empty list are false
Truthy(command) == command # NoCommand /\ command # <<>>

\* json.dumps raises TypeError on a response it cannot serialise
BuildRaises(self) == ~Serializable(self._response)

\* SshSession._build_ssh_command, when it returns
_build_ssh_command(self, DEBUG) ==
    << L_ssh, L_l, self._user, L_p, IntToStr(self._port), L_F, L_devnull >>
    \o << VerbosityFlag(DEBUG) >>
    \o DashO(ssh_options(self))
    \o << self._instance_id >>
    \o (IF Truthy(self._command) THEN <<L_dashdash>> \o self._command ELSE <<>>)

\* ---------------------------------------------------------------- the command builder alone

\* Bound on the length of the profile names tried.
MaxStrLen == 2

\* Characters tried in a profile name: a safe one, a blank, both quotes, a
\* shell metacharacter and the backslash.
Alphabet == {"a", " ", "'", "\"", "$", "\\"}

StrsUpTo(n) == UNION {[1..k -> Alphabet] : k \in 0..n}

UtProfiles == StrsUpTo(MaxStrLen) \cup {None}
UtInstanceIds == {<<"i", "-", "0", "1", "2", "3", "4", "5", "6", "7", "8", "9", "a", "b", "c", "d", "e", "f", "0">>, <<"i", " ", "'", "\"", "$", ";", "\r", "é", "x">>}
UtRegions == {<<"u", "s", "-", "e", "a", "s", "t", "-", "1">>, <<"r", " ", ";", "'">>}
UtPorts == {DEFAULT_SSH_PORT, 2222}
UtCommands == {NoCommand, <<>>, <<<<"l", "s">>, <<"-", "l", " ", "a">>>>}
UtKeyPath == DEFAULT_GATE_DIR \o <<"/", "i", ".", "r", ".", "p">>
UtSsm == [endpoint_url |-> <<"h", "t", "t", "p", "s", ":", "/", "/", "s", "s", "m", ".", "u", "s", "-", "e", "a", "s", "t", "-", "1", ".", "a", "m", "a", "z", "o", "n", "a", "w", "s", ".", "c", "o", "m">>]

\* what the broker's session-start call may return: a dict of strings (the
\* token holding characters the shell and JSON treat specially, a control
\* character and a non-ASCII one among them), or a value
\* json cannot serialise
StartSessionResponse(token) ==
    JObj(<< <<<<"S", "e", "s", "s", "i", "o", "n", "I", "d">>, JStr(<<"s", "-", "1">>)>>,
            <<<<"T", "o", "k", "e", "n", "V", "a", "l", "u", "e">>, JStr(token)>> >>)
UtResponses == {StartSessionResponse(<<"t", "'", "\"", " ", "\\", "$", "\f", "é">>), JObj(<< <<<<"S", "e", "s", "s", "i", "o", "n", "I", "d">>, JOpaque>> >>)}

NoArgs == [instance_id |-> <<>>, region_name |-> <<>>, profile_name |-> None, port |-> 0,
           command |-> NoCommand, agent_mode |-> FALSE]
NoObject == SshSession__init__(<<>>, <<>>, UtSsm, <<>>, None, 0, <<>>, NoCommand, FALSE)

UtInit ==
    /\ upc = "new"
    /\ uargs = NoArgs
    /\ obj = NoObject
    /\ argv = <<>>
    /\ debug \in BOOLEAN

\* SshSession(...)
UtNew ==
    /\ upc = "new"
    /\ \E i \in UtInstanceIds, r \in UtRegions, pr \in UtProfiles, po \in UtPorts, c \in UtCommands, am \in BOOLEAN :
         /\ uargs' = [instance_id |-> i, region_name |-> r, profile_name |-> pr, port |-> po,
                      command |-> c, agent_mode |-> am]
         /\ obj' = SshSession__init__(i, UtKeyPath, UtSsm, r, pr, po, DEFAULT_OS_USER, c, am)
    /\ upc' = "created"
    /\ UNCHANGED <<argv, debug>>

\* entering the session: the broker's response is stored
UtEnter ==
    /\ upc = "created"
    /\ \E resp \in UtResponses : obj' = [obj EXCEPT !._response = resp]
    /\ upc' = "entered"
    /\ UNCHANGED <<uargs, argv, debug>>

\* self._ssh_cmd = self._build_ssh_command()
UtBuild ==
    /\ upc = "entered"
    /\ IF BuildRaises(obj)
         THEN upc' = "raised" /\ UNCHANGED <<obj, argv>>
         ELSE LET cmd == _build_ssh_command(obj, debug)
              IN  /\ argv' = cmd
                  /\ obj' = [obj EXCEPT !._ssh_cmd = cmd]
                  /\ upc' = "built"
    /\ UNCHANGED <<uargs, debug>>

\* ---------------------------------------------------------------- ssh(): inputs and collaborators

\* the two concurrent invocations of ssh()
Procs == {1, 2}
NoOwner == 0

InstanceIds == {<<"i", "-", "1">>}
HostAlias == <<"w", "e", "b">>
InstanceNames == InstanceIds \cup {HostAlias}
RegionNames == {<<"e", "u">>, <<"e", "u", ".", "p">>}
ProfileNames == {<<"q">>, <<"p", ".", "q">>}
ExitStatuses == {0, 255}

\* the configuration file: one host entry, under an alias
ConfigHosts == HostAlias :> [name |-> <<"i", "-", "1">>, profile |-> <<"o", "p", "s">>, region |-> <<"e", "u">>]

\* fetch_instance_details_from_config: the host entry when the name has one,
\* the caller's values otherwise
fetch_instance_details_from_config(config, instance_name, profile_name, region_name) ==
    IF instance_name \in DOMAIN config
      THEN [instance |-> config[instance_name].name,
            profile |-> config[instance_name].profile,
            region |-> config[instance_name].region]
      ELSE [instance |-> instance_name, profile |-> profile_name, region |-> region_name]

\* get_aws_client("ssm", region_name, profile_name): the client's endpoint
get_aws_client(region, profile) ==
    [endpoint_url |-> <<"h", "t", "t", "p", "s", ":", "/", "/", "s", "s", "m", ".">> \o region \o <<".", "a", "m", "a", "z", "o", "n", "a", "w", "s", ".", "c", "o", "m">>]

\* Python values ssh() can return
PyNone == [t |-> "NoneType", v |-> 0]
PyInt(n) == [t |-> "int", v |-> n]

\* execute(cmd, args): the exit status of the process it waited for
execute_result(status) == PyInt(status)

NoExc == ""
NoSession == SshSession__init__(<<>>, <<>>, get_aws_client(<<>>, <<>>), <<>>, None, 0, <<>>, NoCommand, FALSE)

\* "{}/{}.{}.{}".format(DEFAULT_GATE_DIR, instance_id, region_name, profile_name)
key_path(instance_id, region_name, profile_name) ==
    Format(DEFAULT_GATE_DIR) \o <<"/">> \o Format(instance_id) \o <<".">>
    \o Format(region_name) \o <<".">> \o Format(profile_name)

KeyPaths == {key_path(i, r, pr) : i \in InstanceIds, r \in RegionNames, pr \in ProfileNames}

\* ---------------------------------------------------------------- ssh(): the nested with blocks

\* Where control goes when __enter__ of a resource returns: into the next
\* with statement, or into the body.
\* a plausible slip: the session is entered without the upload block
EnterOkTarget_skipupload(res) ==
    CASE res = "key" -> "enter_session"
      [] res = "upload" -> "enter_session"
      [] res = "session" -> "open"

EnterOkTarget(res) ==
    CASE res = "key" -> "enter_upload"
      [] res = "upload" -> "enter_session"
      [] res = "session" -> "open"

\* Where control goes when __enter__ of a resource raises: to __exit__ of the
\* enclosing with statement, or out of ssh().
\* a plausible slip: the key block is not a with statement, so a failure
\* inside it leaves ssh() directly
EnterFailTarget_leak(res) ==
    CASE res = "key" -> "return"
      [] res = "upload" -> "return"
      [] res = "session" -> "exit_upload"

\* a plausible slip: the upload's failure is swallowed and the session entered
EnterFailTarget_swallow(res) ==
    CASE res = "key" -> "return"
      [] res = "upload" -> "enter_session"
      [] res = "session" -> "exit_upload"

\* a plausible slip: the key's release runs although its __enter__ raised
EnterFailTarget_keyunwinds(res) ==
    CASE res = "key" -> "exit_key"
      [] res = "upload" -> "exit_key"
      [] res = "session" -> "exit_upload"

EnterFailTarget(res) ==
    CASE res = "key" -> "return"
      [] res = "upload" -> "exit_key"
      [] res = "session" -> "exit_upload"

\* Where control goes after __exit__ of a resource.
\* a plausible slip: the with statements nested in another order
ExitTarget_misnested(res) ==
    CASE res = "session" -> "exit_key"
      [] res = "key" -> "exit_upload"
      [] res = "upload" -> "return"

ExitTarget(res) ==
    CASE res = "session" -> "exit_upload"
      [] res = "upload" -> "exit_key"
      [] res = "key" -> "return"

\* Where control goes when the body of the innermost with statement ends
\* normally, open() having returned ret: out of the session's block. There
\* is no loop in ssh() or in open().
\* a plausible slip: a failed SSH attempt is retried from the trust install
BodyEndTarget_retry(ret) ==
    IF ret.t = "int" /\ ret.v # 0 THEN "enter_upload" ELSE "exit_session"

BodyEndTarget(ret) == "exit_session"

\* if instance_id is None: raise ValueError(...)
\* a plausible slip: the result of query_instance is not tested
InstanceIdIsNone_never(instance_id) == FALSE

InstanceIdIsNone(instance_id) == instance_id = None

\* The release call made by __exit__ of the session and of the uploader
\* succeeds or fails, and a failure either stays inside __exit__ (it is
\* logged there) or leaves it as an exception.
ReleaseOutcomes == {"released", "failed", "raised"}
ReleaseLog(res, outcome) ==
    IF outcome = "released" THEN <<"release_" \o res>>
    ELSE <<"release_" \o res, "release_" \o res \o "_failed">>
\* the exception __exit__ itself raises
ExitRaises(outcome) == IF outcome = "raised" THEN "ReleaseError" ELSE NoExc

\* The exception in flight after a with statement of ssh() is left: the
\* with statements stand in no try block, so an exception raised by
\* __exit__ takes the place of the one that was in flight, and otherwise
\* that one goes on.
ExcAfterExit(pending, raised) == IF raised # NoExc THEN raised ELSE pending

\* the value of the call ssh(): the body's last statement is the expression
\* statement ssh_session.open(), whose value is dropped
ssh_return(open_result) == PyNone

Event(p, e) == [log EXCEPT ![p] = Append(@, e)]
Goto(p, target) == [pc EXCEPT ![p] = target]

\* ---------------------------------------------------------------- ssh(): the steps

ArgSets == [instance_name : InstanceNames, region_name : RegionNames,
            profile_name : ProfileNames, agent_mode : BOOLEAN]

NoLocals == [instance_id |-> <<>>, region |-> <<>>, profile |-> <<>>, key_path |-> <<>>,
             session |-> NoSession, exc |-> NoExc, ret |-> PyNone]

\* A number for each argument record, to tell the two invocations' arguments
\* apart up to exchanging the invocations.
First(S) == CHOOSE x \in S : TRUE
Bit(S, x) == IF x = First(S) THEN 0 ELSE 1
ArgCode(a) ==
    8 * Bit(InstanceNames, a.instance_name) + 4 * Bit(RegionNames, a.region_name)
    + 2 * Bit(ProfileNames, a.profile_name) + Bit(BOOLEAN, a.agent_mode)

\* Two invocations that both keep the key in a file, the mode in which they
\* can meet at a path. They run the same code, so of two initial states that
\* differ only in which invocation got which arguments, one is kept.
ConcurrentArgs ==
    {a \in [Procs -> {x \in ArgSets : ~x.agent_mode}] : ArgCode(a[1]) <= ArgCode(a[2])}

\* One invocation, in either mode; the other process never calls ssh().
SingleArgs ==
    {a \in [Procs -> ArgSets] : \A p \in Procs : p # First(Procs) => a[p] = First(ArgSets)}

LifecycleInit ==
    /\ pc = [p \in Procs |-> "start"]
    /\ args \in ConcurrentArgs
    /\ loc = [p \in Procs |-> NoLocals]
    /\ files = [k \in KeyPaths |-> NoOwner]
    /\ agent = {}
    /\ log = [p \in Procs |-> <<>>]
    /\ result = [p \in Procs |-> [kind |-> "running", exc |-> NoExc, value |-> PyNone]]

\* the statements before the with blocks: the target is resolved from the
\* configuration, the instance is looked up and the key path is derived
Resolve(p) ==
    /\ pc[p] = "start"
    /\ LET d == fetch_instance_details_from_config(ConfigHosts, args[p].instance_name,
                                                   args[p].profile_name, args[p].region_name)
       IN \* query_instance returns the instance's id, or None
          \E instance_id \in {d.instance, None} :
             IF InstanceIdIsNone(instance_id)
               THEN /\ loc' = [loc EXCEPT ![p].region = d.region, ![p].profile = d.profile,
                                          ![p].instance_id = instance_id,
                                          ![p].exc = "ValueError"]
                    /\ log' = Event(p, "no_instance")
                    /\ pc' = Goto(p, "return")
               ELSE \* the availability zone is looked up and the key path derived
                    /\ loc' = [loc EXCEPT ![p].region = d.region, ![p].profile = d.profile,
                                          ![p].instance_id = instance_id,
                                          ![p].key_path = key_path(instance_id,
                                                                   args[p].region_name,
                                                                   args[p].profile_name)]
                    /\ log' = Event(p, "resolved")
                    /\ pc' = Goto(p, "enter_key")
    /\ UNCHANGED <<args, files, agent, result, debug, builder>>

\* with SshKey(...) as ssh_key: the key is generated and stored, in the agent
\* in agent mode and at key_path otherwise
SshKey__enter__(p) ==
    /\ pc[p] = "enter_key"
    /\ \/ /\ IF args[p].agent_mode
               THEN agent' = agent \cup {p} /\ UNCHANGED files
               ELSE files' = [files EXCEPT ![loc[p].key_path] = p] /\ UNCHANGED agent
          /\ log' = Event(p, "key_created")
          /\ pc' = Goto(p, EnterOkTarget("key"))
          /\ UNCHANGED loc
       \/ /\ loc' = [loc EXCEPT ![p].exc = "KeyGenerationError"]
          /\ log' = Event(p, "key_failed")
          /\ pc' = Goto(p, EnterFailTarget("key"))
          /\ UNCHANGED <<files, agent>>
    /\ UNCHANGED <<args, result, debug, builder>>

\* with SshKeyUploader(...): the trust-broker call
SshKeyUploader__enter__(p) ==
    /\ pc[p] = "enter_upload"
    /\ \/ /\ log' = Event(p, "trust_installed")
          /\ pc' = Goto(p, EnterOkTarget("upload"))
          /\ UNCHANGED loc
       \/ /\ loc' = [loc EXCEPT ![p].exc = "TrustInstallError"]
          /\ log' = Event(p, "trust_failed")
          /\ pc' = Goto(p, EnterFailTarget("upload"))
    /\ UNCHANGED <<args, files, agent, result, debug, builder>>

\* with SshSession(...) as ssh_session: the instance is built, then the
\* broker's session-start call is made and its response kept
SshSession__enter__(p) ==
    /\ pc[p] = "enter_session"
    /\ LET new == SshSession__init__(loc[p].instance_id, loc[p].key_path,
                                     get_aws_client(loc[p].region, loc[p].profile),
                                     loc[p].region, loc[p].profile, DEFAULT_SSH_PORT,
                                     DEFAULT_OS_USER, NoCommand, args[p].agent_mode)
       IN \/ \E resp \in {StartSessionResponse(<<"t">>), JObj(<< <<<<"S", "e", "s", "s", "i", "o", "n", "I", "d">>, JOpaque>> >>)} :
               /\ loc' = [loc EXCEPT ![p].session = [new EXCEPT !._response = resp]]
               /\ log' = Event(p, "session_started")
               /\ pc' = Goto(p, EnterOkTarget("session"))
          \/ /\ loc' = [loc EXCEPT ![p].session = new, ![p].exc = "SessionStartError"]
             /\ log' = Event(p, "session_failed")
             /\ pc' = Goto(p, EnterFailTarget("session"))
    /\ UNCHANGED <<args, files, agent, result, debug, builder>>

\* SshSession.open, first statement: self._ssh_cmd = self._build_ssh_command()
open_build(p) ==
    /\ pc[p] = "open"
    /\ IF BuildRaises(loc[p].session)
         THEN /\ loc' = [loc EXCEPT ![p].exc = "TypeError"]
              /\ log' = Event(p, "build_failed")
              /\ pc' = Goto(p, "exit_session")
         ELSE /\ loc' = [loc EXCEPT ![p].session._ssh_cmd =
                                        _build_ssh_command(loc[p].session, debug)]
              /\ log' = Event(p, "cmd_built")
              /\ pc' = Goto(p, "execute")
    /\ UNCHANGED <<args, files, agent, result, debug, builder>>

\* SshSession.open, second statement: execute(...) spawns the SSH process
execute_spawn(p) ==
    /\ pc[p] = "execute"
    /\ \/ /\ log' = Event(p, "spawned")
          /\ pc' = Goto(p, "wait")
          /\ UNCHANGED loc
       \/ /\ loc' = [loc EXCEPT ![p].exc = "ProcessLaunchError"]
          /\ log' = Event(p, "spawn_failed")
          /\ pc' = Goto(p, "exit_session")
    /\ UNCHANGED <<args, files, agent, result, debug, builder>>

\* execute(...) waits for the SSH process: it exits with a status, which
\* open() returns, or the operator interrupts the wait
execute_wait(p) ==
    /\ pc[p] = "wait"
    /\ \/ \E status \in ExitStatuses :
             /\ loc' = [loc EXCEPT ![p].ret = execute_result(status)]
             /\ log' = Event(p, "exited")
             /\ pc' = Goto(p, BodyEndTarget(execute_result(status)))
       \/ /\ loc' = [loc EXCEPT ![p].exc = "KeyboardInterrupt"]
          /\ log' = Event(p, "interrupted")
          /\ pc' = Goto(p, "exit_session")
    /\ UNCHANGED <<args, files, agent, result, debug, builder>>

\* leaving the session's with block: the broker session is terminated
SshSession__exit__(p) ==
    /\ pc[p] = "exit_session"
    /\ \E outcome \in ReleaseOutcomes :
          /\ log' = [log EXCEPT ![p] = @ \o ReleaseLog("session", outcome)]
          /\ loc' = [loc EXCEPT ![p].exc = ExcAfterExit(@, ExitRaises(outcome))]
    /\ pc' = Goto(p, ExitTarget("session"))
    /\ UNCHANGED <<args, files, agent, result, debug, builder>>

\* leaving the uploader's with block: the trust grant is released
SshKeyUploader__exit__(p) ==
    /\ pc[p] = "exit_upload"
    /\ \E outcome \in ReleaseOutcomes :
          /\ log' = [log EXCEPT ![p] = @ \o ReleaseLog("upload", outcome)]
          /\ loc' = [loc EXCEPT ![p].exc = ExcAfterExit(@, ExitRaises(outcome))]
    /\ pc' = Goto(p, ExitTarget("upload"))
    /\ UNCHANGED <<args, files, agent, result, debug, builder>>

\* leaving the key's with block: the key is deleted, from the agent in agent
\* mode, and otherwise whatever file is at key_path is removed
SshKey__exit__(p) ==
    /\ pc[p] = "exit_key"
    /\ IF args[p].agent_mode
         THEN agent' = agent \ {p} /\ UNCHANGED files
         ELSE files' = [files EXCEPT ![loc[p].key_path] = NoOwner] /\ UNCHANGED agent
    /\ log' = Event(p, "release_key")
    /\ pc' = Goto(p, ExitTarget("key"))
    /\ UNCHANGED <<args, loc, result, debug, builder>>

\* ssh() ends: a pending exception propagates, otherwise the call returns
Return(p) ==
    /\ pc[p] = "return"
    /\ result' = [result EXCEPT ![p] =
                    IF loc[p].exc # NoExc
                      THEN [kind |-> "raise", exc |-> loc[p].exc, value |-> PyNone]
                      ELSE [kind |-> "return", exc |-> NoExc, value |-> ssh_return(loc[p].ret)]]
    /\ pc' = Goto(p, "done")
    /\ UNCHANGED <<args, loc, files, agent, log, debug, builder>>

\* ---------------------------------------------------------------- specifications

\* two concurrent invocations of ssh()
Init ==
    /\ LifecycleInit
    /\ debug = FALSE
    /\ uargs = NoArgs
    /\ obj = NoObject
    /\ argv = <<>>
    /\ upc = "idle"

Next ==
    \E p \in Procs :
        \/ Resolve(p)
        \/ SshKey__enter__(p)
        \/ SshKeyUploader__enter__(p)
        \/ SshSession__enter__(p)
        \/ open_build(p)
        \/ execute_spawn(p)
        \/ execute_wait(p)
        \/ SshSession__exit__(p)
        \/ SshKeyUploader__exit__(p)
        \/ SshKey__exit__(p)
        \/ Return(p)

Spec == Init /\ [][Next]_vars

\* a single invocation of ssh(), with the key in a file or in the agent
InitOne ==
    /\ pc = [p \in Procs |-> IF p = First(Procs) THEN "start" ELSE "idle"]
    /\ args \in SingleArgs
    /\ loc = [p \in Procs |-> NoLocals]
    /\ files = [k \in KeyPaths |-> NoOwner]
    /\ agent = {}
    /\ log = [p \in Procs |-> <<>>]
    /\ result = [p \in Procs |-> [kind |-> "running", exc |-> NoExc, value |-> PyNone]]
    /\ debug = FALSE
    /\ uargs = NoArgs
    /\ obj = NoObject
    /\ argv = <<>>
    /\ upc = "idle"

SpecOne == InitOne /\ [][Next]_vars

\* the command builder alone, on a wider range of inputs
InitCmd ==
    /\ UtInit
    /\ pc = [p \in Procs |-> "done"]
    /\ args = [p \in Procs |-> [instance_name |-> HostAlias, region_name |-> <<>>,
                                profile_name |-> <<>>, agent_mode |-> FALSE]]
    /\ loc = [p \in Procs |-> NoLocals]
    /\ files = [k \in KeyPaths |-> NoOwner]
    /\ agent = {}
    /\ log = [p \in Procs |-> <<>>]
    /\ result = [p \in Procs |-> [kind |-> "running", exc |-> NoExc, value |-> PyNone]]

NextCmd == (UtNew \/ UtEnter \/ UtBuild) /\ UNCHANGED lifecycle

SpecCmd == InitCmd /\ [][NextCmd]_vars

\* ---------------------------------------------------------------- the argument vector, as the SSH client reads it

StartsWith(s, pre) == Len(s) >= Len(pre) /\ SubSeq(s, 1, Len(pre)) = pre

RECURSIVE SshOptionsFrom(_, _)
\* The values of the -o options the SSH client reads from cmd, from position
\* i up to the connection target: -l, -p, -F and -o take the next element as
\* their argument, -q and -vv stand alone, and the first other element is
\* the target.
SshOptionsFrom(cmd, i) ==
    IF i > Len(cmd) THEN <<>>
    ELSE IF cmd[i] \in {L_l, L_p, L_F} THEN SshOptionsFrom(cmd, i + 2)
    ELSE IF cmd[i] \in {L_q, L_vv} THEN SshOptionsFrom(cmd, i + 1)
    ELSE IF cmd[i] = L_o /\ i < Len(cmd) THEN <<cmd[i + 1]>> \o SshOptionsFrom(cmd, i + 2)
    ELSE <<>>

SshOptions(cmd) == SshOptionsFrom(cmd, 2)

\* the values given for the option named by key (key ends in "=")
OptionValues(cmd, key) ==
    LET o == SshOptions(cmd)
    IN  SelectSeq([i \in DOMAIN o |-> IF StartsWith(o[i], key)
                                        THEN <<SubSeq(o[i], Len(key) + 1, Len(o[i]))>>
                                        ELSE <<>>],
                  LAMBDA x : x # <<>>)

\* the proxy-command string of a built argument vector
ProxyCommandOf(cmd) == OptionValues(cmd, L_ProxyCommand)[1][1]

\* ---------------------------------------------------------------- claims on the command builder

\* C8: every argument vector _build_ssh_command returns holds exactly one
\* IdentitiesOnly option, whose value is "no" when agent mode is enabled and
\* "yes" otherwise.
C8_IdentitiesOnly ==
    upc = "built" =>
        OptionValues(argv, L_IdentitiesOnly) = << <<IF uargs.agent_mode THEN L_no ELSE L_yes>> >>

C8_Witness ==
    /\ upc = "built"
    /\ uargs.agent_mode
    /\ OptionValues(argv, L_IdentitiesOnly) = << <<L_no>> >>

\* C9: splitting the proxy-command string of the built argument vector by the
\* shell's word-splitting rules gives back the list of proxy-command
\* arguments, whatever blanks, quotes and metacharacters they hold.
C9_QuoteRoundTrip ==
    upc = "built" => ShellSplit(ProxyCommandOf(argv)) = proxy_command_args(obj)

C9_Witness ==
    /\ upc = "built"
    /\ uargs.profile_name = <<"'", " ">>
    /\ uargs.instance_id = <<"i", " ", "'", "\"", "$", ";", "\r", "é", "x">>
    /\ ShellSplit(ProxyCommandOf(argv))[5] = <<"'", " ">>

\* C10: the proxy command encodes seven arguments, in the order executable
\* path, serialized session-start response, region, "StartSession", profile,
\* serialized session descriptor, endpoint URL; a profile given as None is
\* the empty string and still takes the fifth place.
C10_SevenArguments ==
    upc = "built" =>
        LET w == ShellSplit(ProxyCommandOf(argv))
        IN  /\ Len(w) = 7
            /\ w[1] = PLUGIN_INSTALL_PATH
            /\ w[2] = dumps(obj._response)
            /\ w[3] = uargs.region_name
            /\ w[4] = L_StartSession
            /\ w[5] = (IF uargs.profile_name = None THEN <<>> ELSE uargs.profile_name)
            /\ w[6] = dumps(obj._session_parameters)
            /\ w[7] = UtSsm.endpoint_url

C10_Witness ==
    /\ upc = "built"
    /\ uargs.profile_name = None
    /\ Len(ShellSplit(ProxyCommandOf(argv))) = 7
    /\ ShellSplit(ProxyCommandOf(argv))[5] = <<>>
    /\ ShellSplit(ProxyCommandOf(argv))[7] = UtSsm.endpoint_url

\* C11: the argument vector is the client name, the user flag and user,
\* the port flag and the port as a string, the config-disable flag with
\* /dev/null, one verbosity flag (-vv when the debug flag is set, -q
\* otherwise), the five -o pairs in the order IdentitiesOnly, IdentityFile,
\* UserKnownHostsFile, StrictHostKeyChecking, ProxyCommand, and then the
\* instance identifier; no -o stands before the verbosity flag, and after the
\* target there is nothing or the command separator.
C11_Layout ==
    upc = "built" =>
        /\ Len(argv) >= 19
        /\ SubSeq(argv, 1, 4) = <<L_ssh, L_l, DEFAULT_OS_USER, L_p>>
        /\ argv[5] = (IF uargs.port = 2222 THEN <<"2", "2", "2", "2">> ELSE <<"2", "2">>)
        /\ SubSeq(argv, 6, 7) = <<L_F, L_devnull>>
        /\ argv[8] = (IF debug THEN L_vv ELSE L_q)
        /\ \A i \in 1..8 : argv[i] # L_o
        /\ \A i \in {9, 11, 13, 15, 17} : argv[i] = L_o
        /\ StartsWith(argv[10], L_IdentitiesOnly)
        /\ argv[12] = L_IdentityFile \o UtKeyPath
        /\ argv[14] = L_UserKnownHostsFile
        /\ argv[16] = L_StrictHostKeyChecking
        /\ StartsWith(argv[18], L_ProxyCommand)
        /\ argv[19] = uargs.instance_id
        /\ Len(argv) > 19 => argv[20] = L_dashdash

C11_Witness ==
    /\ upc = "built"
    /\ debug
    /\ uargs.port = 2222
    /\ argv[8] = L_vv
    /\ argv[5] = <<"2", "2", "2", "2">>
    /\ Len(argv) = 19

\* a remote command was supplied: a list with at least one token
CommandSupplied == uargs.command # NoCommand /\ uargs.command # <<>>

\* C12: with a remote command, the argument vector ends with "--" and then
\* the command's tokens, unchanged and one element each, right after the
\* instance identifier; without one, the instance identifier is the last
\* element and there is no "--".
C12_RemoteCommand ==
    upc = "built" =>
        IF CommandSupplied
          THEN /\ Len(argv) = 20 + Len(uargs.command)
               /\ argv[19] = uargs.instance_id
               /\ argv[20] = L_dashdash
               /\ SubSeq(argv, 21, Len(argv)) = uargs.command
          ELSE /\ argv[Len(argv)] = uargs.instance_id
               /\ \A i \in DOMAIN argv : argv[i] # L_dashdash

C12_Witness ==
    /\ upc = "built"
    /\ CommandSupplied
    /\ Len(argv) = 22
    /\ argv[20] = L_dashdash
    /\ argv[22] = <<"-", "l", " ", "a">>

\* the session descriptor for the arguments SshSession(...) was given
Descriptor ==
    JObj(<< <<L_Target, JStr(uargs.instance_id)>>,
            <<L_DocumentName, JStr(L_StartSSHSession)>>,
            <<L_Parameters,
              JObj(<< <<L_portNumber,
                        JArr(<<JStr(IF uargs.port = 2222 THEN <<"2", "2", "2", "2">>
                                                         ELSE <<"2", "2">>)>>)>> >>)>> >>)

\* C15: from construction on, the session descriptor has Target equal to the
\* instance id, the document name "AWS-StartSSHSession" and Parameters equal
\* to {"portNumber": [the port as a string]}; it is there before any broker
\* response is, and it is the value serialized into the proxy command.
C15_Descriptor ==
    /\ upc \in {"created", "entered", "built", "raised"} => obj._session_parameters = Descriptor
    /\ upc = "created" => obj._response = NoResponse
    /\ upc = "built" => ShellSplit(ProxyCommandOf(argv))[6] = dumps(Descriptor)

C15_Witness ==
    /\ upc = "built"
    /\ uargs.port = 2222
    /\ obj._session_parameters = Descriptor
    /\ ShellSplit(ProxyCommandOf(argv))[6] = dumps(Descriptor)

\* ---------------------------------------------------------------- claims on ssh()

Reverse(s) == [i \in 1..Len(s) |-> s[Len(s) + 1 - i]]
IsPrefix(a, b) == Len(a) <= Len(b) /\ SubSeq(b, 1, Len(a)) = a
Occurs(p, e) == \E i \in DOMAIN log[p] : log[p][i] = e
\* the position of event e in the log of p, 0 when it has not occurred
Idx(p, e) == IF Occurs(p, e) THEN CHOOSE i \in DOMAIN log[p] : log[p][i] = e ELSE 0
\* if b has occurred, a occurred before it
Precedes(p, a, b) == Occurs(p, b) => (Occurs(p, a) /\ Idx(p, a) < Idx(p, b))

AcquireEvents == [key_created |-> "key", trust_installed |-> "upload", session_started |-> "session"]
ReleaseEvents == [release_key |-> "key", release_upload |-> "upload", release_session |-> "session"]

\* the resources p has acquired, and those it has released, in order
Acquired(p) ==
    LET es == SelectSeq(log[p], LAMBDA e : e \in DOMAIN AcquireEvents)
    IN  [i \in DOMAIN es |-> AcquireEvents[es[i]]]
Released(p) ==
    LET es == SelectSeq(log[p], LAMBDA e : e \in DOMAIN ReleaseEvents)
    IN  [i \in DOMAIN es |-> ReleaseEvents[es[i]]]

\* the key p created is still where p stored it
KeyExists(p) ==
    IF args[p].agent_mode THEN p \in agent ELSE files[loc[p].key_path] = p

\* C1: whatever step fails, the resources acquired before it are released
\* exactly once and in the reverse of the order they were acquired in, and
\* nothing that was not acquired is released.
C1_ReverseRelease ==
    \A p \in Procs :
        /\ IsPrefix(Released(p), Reverse(Acquired(p)))
        /\ pc[p] \in {"return", "done"} => Released(p) = Reverse(Acquired(p))

C1_Witness ==
    \E p \in Procs :
        /\ pc[p] = "done"
        /\ Occurs(p, "session_failed")
        /\ Acquired(p) = <<"key", "upload">>
        /\ Released(p) = <<"upload", "key">>

\* C2: once ssh() has finished after creating the key, the key is gone from
\* where it was stored, on every exit path.
C2_KeyGone ==
    \A p \in Procs : (pc[p] = "done" /\ Occurs(p, "key_created")) => ~KeyExists(p)

C2_Witness ==
    \E p \in Procs :
        /\ pc[p] = "done"
        /\ Occurs(p, "key_created")
        /\ Occurs(p, "interrupted")
        /\ ~args[p].agent_mode
        /\ files[loc[p].key_path] = NoOwner

\* C3: when the trust-broker call fails, no broker session is started, no
\* command is built and no SSH process is spawned, and ssh() ends by raising
\* that error with the key gone.
C3_TrustFailure ==
    \A p \in Procs :
        Occurs(p, "trust_failed") =>
            /\ \A e \in {"session_started", "session_failed", "cmd_built", "build_failed",
                         "spawned", "spawn_failed"} : ~Occurs(p, e)
            /\ pc[p] = "done" =>
                   /\ result[p].kind = "raise"
                   /\ result[p].exc = "TrustInstallError"
                   /\ ~KeyExists(p)

C3_Witness ==
    \E p \in Procs :
        /\ pc[p] = "done"
        /\ Occurs(p, "trust_failed")
        /\ result[p].exc = "TrustInstallError"
        /\ ~args[p].agent_mode
        /\ files[loc[p].key_path] = NoOwner

\* C4: when every acquisition succeeds and the SSH process exits with status
\* s, ssh() returns s and does not raise.
C4_ReturnsExitStatus ==
    \A p \in Procs :
        (pc[p] = "done" /\ Occurs(p, "exited")) =>
            /\ result[p].kind = "return"
            /\ result[p].value = loc[p].ret

\* C5: the key is created before the trust-broker call, the trust-broker call
\* succeeds before the broker session is started, the session-start response
\* exists before the argument vector is built, and the SSH process is spawned
\* only after all three.
C5_Order ==
    \A p \in Procs :
        /\ \A e \in {"trust_installed", "trust_failed"} : Precedes(p, "key_created", e)
        /\ \A e \in {"session_started", "session_failed"} : Precedes(p, "trust_installed", e)
        /\ \A e \in {"cmd_built", "build_failed"} : Precedes(p, "session_started", e)
        /\ \A e \in {"spawned", "spawn_failed"} : Precedes(p, "cmd_built", e)

C5_Witness ==
    \E p \in Procs :
        log[p] = <<"resolved", "key_created", "trust_installed", "session_started",
                   "cmd_built", "spawned">>

\* the three values the key path of p is derived from
PathInputs(p) == <<loc[p].instance_id, args[p].region_name, args[p].profile_name>>
\* the target p connects to
Target(p) == <<loc[p].instance_id, loc[p].region, loc[p].profile>>

\* C6: two invocations whose (instance id, region, profile) differ in any
\* component derive different key paths, also when a component holds a ".".
C6_KeyPathInjective ==
    \A p, q \in Procs :
        (Occurs(p, "resolved") /\ Occurs(q, "resolved") /\ PathInputs(p) # PathInputs(q))
            => loc[p].key_path # loc[q].key_path

\* C7: for two concurrent invocations whose targets differ in instance,
\* region or profile, the key of one is still in place for as long as its SSH
\* process runs, whatever the other invocation does.
C7_DifferentTargetsApart ==
    \A p, q \in Procs :
        (p # q /\ Occurs(p, "resolved") /\ Target(p) # Target(q) /\ pc[q] = "wait")
            => KeyExists(q)

\* the error each failing step raises
FailureEvents ==
    [no_instance |-> "ValueError", key_failed |-> "KeyGenerationError",
     trust_failed |-> "TrustInstallError", session_failed |-> "SessionStartError",
     build_failed |-> "TypeError", spawn_failed |-> "ProcessLaunchError",
     interrupted |-> "KeyboardInterrupt"]
ReleaseFailureEvents == {"release_session_failed", "release_upload_failed"}
\* how many of the events in E the log of p holds
Count(p, E) == Cardinality({i \in DOMAIN log[p] : log[p][i] \in E})

\* C13: when the release of the broker session or of the trust grant fails
\* during unwinding, the key is removed all the same, and ssh() ends as it
\* would have without the failure: raising the error that started the
\* unwinding, or returning when there was none.
C13_ReleaseFailure ==
    \A p \in Procs :
        (pc[p] = "done" /\ Count(p, ReleaseFailureEvents) > 0) =>
            /\ Occurs(p, "release_key")
            /\ ~KeyExists(p)
            /\ \A e \in DOMAIN FailureEvents :
                   Occurs(p, e) => (result[p].kind = "raise" /\ result[p].exc = FailureEvents[e])
            /\ Count(p, DOMAIN FailureEvents) = 0 => result[p].kind = "return"

\* C14: when key generation fails, ssh() raises that error, and nothing else
\* happens in the run: no trust-broker call, no broker session, no SSH
\* process, and no release of anything.
C14_KeyFailure ==
    \A p \in Procs :
        Occurs(p, "key_failed") =>
            /\ log[p] = <<"resolved", "key_failed">>
            /\ pc[p] \in {"return", "done"}
            /\ ~KeyExists(p)
            /\ pc[p] = "done" =>
                   (result[p].kind = "raise" /\ result[p].exc = "KeyGenerationError")

C14_Witness ==
    \E p \in Procs :
        /\ pc[p] = "done"
        /\ log[p] = <<"resolved", "key_failed">>
        /\ result[p].exc = "KeyGenerationError"

\* C16: when query_instance returns None, ssh() raises at once: the
\* availability zone is not looked up, and no key, trust grant, broker
\* session or SSH process comes into being.
C16_NoInstance ==
    \A p \in Procs :
        loc[p].instance_id = None =>
            /\ log[p] = <<"no_instance">>
            /\ pc[p] \in {"return", "done"}
            /\ loc[p].key_path = <<>>
            /\ p \notin agent
            /\ \A k \in KeyPaths : files[k] # p
            /\ pc[p] = "done" => (result[p].kind = "raise" /\ result[p].exc = "ValueError")

C16_Witness ==
    \E p \in Procs :
        /\ pc[p] = "done"
        /\ loc[p].instance_id = None
        /\ log[p] = <<"no_instance">>
        /\ result[p].exc = "ValueError"

\* C17: the key path is made of the instance id and of the region and profile
\* the session uses, and the argument vector names that path as its
\* IdentityFile.
C17_KeyPathOfSession ==
    \A p \in Procs :
        Occurs(p, "cmd_built") =>
            /\ loc[p].key_path = key_path(loc[p].instance_id, loc[p].region, loc[p].profile)
            /\ OptionValues(loc[p].session._ssh_cmd, L_IdentityFile) = << <<loc[p].key_path>> >>

\* C18: of two concurrent invocations with the same instance, region and
\* profile, while the SSH process of one runs there is a key at the path
\* they share, whatever the other has done in the meantime.
C18_SharedKeySurvives ==
    \A p, q \in Procs :
        (/\ p # q
         /\ Occurs(p, "resolved")
         /\ Target(p) = Target(q)
         /\ PathInputs(p) = PathInputs(q)
         /\ pc[q] = "wait")
            => files[loc[q].key_path] # NoOwner

\* C19: in one run the trust-broker call, the session-start call and the
\* spawn of the SSH process are each made at most once, and nothing is
\* acquired or spawned after the SSH process has exited, whatever its status.
C19_AtMostOnce ==
    \A p \in Procs :
        /\ Count(p, {"trust_installed", "trust_failed"}) <= 1
        /\ Count(p, {"session_started", "session_failed"}) <= 1
        /\ Count(p, {"spawned", "spawn_failed"}) <= 1
        /\ \A i, j \in DOMAIN log[p] :
               (i < j /\ log[p][i] = "exited") =>
                   log[p][j] \in {"release_session", "release_session_failed",
                                  "release_upload", "release_upload_failed", "release_key"}

C19_Witness ==
    \E p \in Procs :
        /\ pc[p] = "done"
        /\ Occurs(p, "exited")
        /\ loc[p].ret = execute_result(255)
        /\ Count(p, {"spawned"}) = 1
        /\ Count(p, {"trust_installed"}) = 1

====
